---------------------------- MODULE Spec2Model ----------------------------
(***************************************************************************)
(* Model of the ParticleSpan demonstrator: an array-of-structures stack of *)
(* Particle records, the ParticleSpan handle with its strided field views, *)
(* the update operations energy_loss / do_energy_loss / move_particle in   *)
(* their single-record and span forms, and the benchmark bodies that apply *)
(* them (directly or through a std::variant process list).                 *)
(*                                                                         *)
(* Number model.  A float is a record [k, v]:                              *)
(*   k = "fin"  a finite value v / Scale (decimal grid, round half even),  *)
(*   k = "inf"  +infinity (v = 1) or -infinity (v = -1),                   *)
(*   k = "nan"  not-a-number,                                              *)
(*   k = "int"  a std::int32_t stored in a record slot (the pid).          *)
(* Arithmetic follows IEEE-754 for the special values; finite results are  *)
(* rounded to the grid and overflow to infinity beyond MaxFinite.  float   *)
(* and double share the grid: the rounding difference between the two is   *)
(* not modelled.                                                           *)
(***************************************************************************)
EXTENDS Integers, Sequences, FiniteSets, TLC

\* ------------------------------------------------------------------ bounds
\* grid units per 1.0
Scale == 10
\* largest finite magnitude, in grid units
MaxFinite == 30000
\* number of records of the stack (100000 in setup_stack)
StackSize == 9
\* iterations of the benchmark loop `for (auto _ : state)`
MaxPasses == 2

\* ------------------------------------------------------------ float values
F(n) == [k |-> "fin", v |-> n]
NaN == [k |-> "nan", v |-> 0]
PInf == [k |-> "inf", v |-> 1]
NInf == [k |-> "inf", v |-> -1]
I(n) == [k |-> "int", v |-> n]

Zero == F(0)
One == F(Scale)

IsFin(a) == a.k = "fin"
IsInf(a) == a.k = "inf"
IsNum(a) == a.k \in {"fin", "inf"}

\* sign of a number, +0 counting as positive
Sgn(a) == IF a.v < 0 THEN -1 ELSE 1
Inf(s) == IF s < 0 THEN NInf ELSE PInf

\* n / d rounded to the nearest integer, ties to even (d > 0)
Round(n, d) ==
  LET q == n \div d
      r == n % d
  IN  IF 2 * r < d THEN q
      ELSE IF 2 * r > d THEN q + 1
      ELSE IF q % 2 = 0 THEN q ELSE q + 1

\* a finite result, overflowing to infinity
Norm(n) ==
  IF n > MaxFinite THEN PInf
  ELSE IF n < -MaxFinite THEN NInf
  ELSE F(n)

Neg(a) ==
  CASE a.k = "fin" -> F(-a.v)
    [] a.k = "inf" -> Inf(-a.v)
    [] OTHER -> NaN

Add(a, b) ==
  CASE ~IsNum(a) \/ ~IsNum(b) -> NaN
    [] IsInf(a) /\ IsInf(b) -> IF a.v = b.v THEN a ELSE NaN
    [] IsInf(a) -> a
    [] IsInf(b) -> b
    [] OTHER -> Norm(a.v + b.v)

Sub(a, b) == Add(a, Neg(b))

Mul(a, b) ==
  CASE ~IsNum(a) \/ ~IsNum(b) -> NaN
    [] IsInf(a) /\ IsInf(b) -> Inf(a.v * b.v)
    [] IsInf(a) -> IF b.v = 0 THEN NaN ELSE Inf(a.v * Sgn(b))
    [] IsInf(b) -> IF a.v = 0 THEN NaN ELSE Inf(b.v * Sgn(a))
    [] OTHER -> Norm(Round(a.v * b.v, Scale))

Div(a, b) ==
  CASE ~IsNum(a) \/ ~IsNum(b) -> NaN
    [] IsInf(a) /\ IsInf(b) -> NaN
    [] IsInf(a) -> Inf(a.v * Sgn(b))
    [] IsInf(b) -> Zero
    [] b.v = 0 -> IF a.v = 0 THEN NaN ELSE Inf(Sgn(a))
    [] b.v < 0 -> Norm(Round(-(a.v * Scale), -b.v))
    [] OTHER -> Norm(Round(a.v * Scale, b.v))

\* exp(j / 4) * 1000 for j = 0, 1, 2, ...
ExpQ ==
  << 1000, 1284, 1649, 2117, 2718, 3490, 4482, 5755, 7389, 9488, 12182,
     15643, 20086, 25790, 33115, 42521, 54598, 70105, 90017, 115584,
     148413, 190566, 244692, 314191, 403429, 518013, 665142, 854059,
     1096633, 1408105, 1808042, 2321572, 2980958, 3827626 >>

\* the number of quarters in ln(n / d), rounded down, for n >= d > 0
LnQ(n, d) ==
  CHOOSE j \in 0 .. (Len(ExpQ) - 1) :
    /\ n * 1000 >= d * ExpQ[j + 1]
    /\ j + 1 < Len(ExpQ) => n * 1000 < d * ExpQ[j + 2]

\* std::log: ln rounded toward zero to a quarter, then to the grid
Log(a) ==
  CASE ~IsNum(a) -> NaN
    [] IsInf(a) -> IF a.v > 0 THEN PInf ELSE NaN
    [] a.v < 0 -> NaN
    [] a.v = 0 -> NInf
    [] a.v >= Scale -> F(Round(LnQ(a.v, Scale) * Scale, 4))
    [] OTHER -> F(-Round(LnQ(Scale, a.v) * Scale, 4))

\* bool -> float, as cast<float>() and the bool * double promotion do
CastFloat(b) == IF b THEN One ELSE Zero

\* Particle::pid() != 0 on a stored std::int32_t
NonZero(a) == a.v # 0

\* ------------------------------------------------------------------ state
VARIABLES
  layout,        \* "ext": the Particle with pid, momentum, energy, position,
                 \* time; "phys": the Particle of span_demo.cpp (px, py, pz, e)
  mem,           \* the stack's storage, one scalar slot per field, record-major
  i,             \* setup_stack's counter `int i`
  pc,            \* "setup", "stack", "span", "wrote", "iter", "body"
  range0,        \* state.range(0)
  begin_, end_,  \* ParticleSpan::begin_, end_ (record positions in the stack)
  method,        \* the benchmark function being run
  process_list,  \* ProcessList of the variant benchmarks
  p,             \* the record the loop `for (auto&& p : span)` is at
  li,            \* position in the loop body / in process_list (1-based)
  pass,          \* completed iterations of `for (auto _ : state)`
  mem0,          \* history: storage when the span was constructed
  memP,          \* history: storage at the start of the current iteration
  nEL, nMove,    \* history: applications of each operation, per record
  calls,         \* history: processes dispatched in the current iteration
  lastw          \* history: the last write made through a strided view

vars ==
  << layout, mem, i, pc, range0, begin_, end_, method, process_list, p, li,
     pass, mem0, memP, nEL, nMove, calls, lastw >>

\* ----------------------------------------------------------- record layout
FieldsOf(L) ==
  IF L = "ext"
    THEN << "pid", "px", "py", "pz", "e", "x", "y", "z", "t" >>
    ELSE << "px", "py", "pz", "e" >>

Fields == FieldsOf(layout)

\* sizeof(Particle) / sizeof(float)
StrideOf(L) == Len(FieldsOf(L))
Stride == StrideOf(layout)

FieldSet == { Fields[n] : n \in 1 .. Len(Fields) }
FloatFields == FieldSet \ {"pid"}

\* position of member f_ inside a Particle, in scalars
Offset(f) == (CHOOSE n \in 1 .. Len(Fields) : Fields[n] = f) - 1

\* std::vector<Particle>::size()
NRec(m) == Len(m) \div Stride

\* &stack[r].f_ - (float*)stack.data()
FieldAddr(r, f) == r * Stride + Offset(f)

\* a read outside the storage yields garbage, modelled as NaN
Load(m, a) == IF (a + 1) \in DOMAIN m THEN m[a + 1] ELSE NaN
\* a write outside the storage is dropped
Store(m, a, val) ==
  IF (a + 1) \in DOMAIN m THEN [m EXCEPT ![a + 1] = val] ELSE m

\* Particle::f() on the record at position r
Get(m, r, f) == Load(m, FieldAddr(r, f))
Put(m, r, f, val) == Store(m, FieldAddr(r, f), val)

\* ------------------------------------------------- ParticleSpan and views
\* mutant: the end position counted in
size_inclusive == end_ - begin_ + 1

\* ParticleSpan::size()
size == end_ - begin_

\* mutant: the stride of the four-float Particle used for every Particle
ArrayView_stride4(base, n) == [base |-> base, size |-> n, stride |-> 4]

\* Eigen::Map<Array<T, Dynamic, 1>, Unaligned, InnerStride<...>>(base, n)
ArrayView(base, n) == [base |-> base, size |-> n, stride |-> Stride]

\* ParticleSpan::f()
SpanView(f) == ArrayView(FieldAddr(begin_, f), size)

\* address of coefficient j of a view
ViewAddr(v, j) == v.base + j * v.stride

\* span.f()(j)
VGet(m, f, j) == Load(m, ViewAddr(SpanView(f), j))

\* the coefficients 0 .. size() - 1 of the span's views
Coeffs == 0 .. (size - 1)

\* the Particle& at position r, as its accessors read it
ParticleAt(m, r) == [f \in FieldSet |-> Get(m, r, f)]

\* coefficient j of each of the span's views
CoeffAt(m, j) == [f \in FieldSet |-> VGet(m, f, j)]

\* view = expression: coefficient j of the view receives vals[j], the
\* expression evaluated on the storage before the assignment
StoreView(m, v, vals) ==
  [a \in DOMAIN m |->
    LET d == a - 1 - v.base
    IN  IF d >= 0 /\ d % v.stride = 0 /\ (d \div v.stride) < v.size
          THEN vals[d \div v.stride]
          ELSE m[a]]

\* -------------------------------------------------------- update operations
sqr(x) == Mul(x, x)

\* sqr(part.px()) + sqr(part.py()) + sqr(part.pz())
momentum_squared(part) ==
  Add(Add(sqr(part["px"]), sqr(part["py"])), sqr(part["pz"]))

\* momentum_squared(part) / sqr(part.e())
beta_2(part) == Div(momentum_squared(part), sqr(part["e"]))

\* log(beta_2 / (1.0 - beta_2)) / beta_2 - 1.0
loss_term(b) == Sub(Div(Log(Div(b, Sub(One, b))), b), One)

\* template charge(T&) on a Particle
charge(m, r) == NonZero(Get(m, r, "pid"))

\* charge(ParticleSpan&), coefficient j: (part.pid() != 0).cast<float>()
charge_span(m, j) == CastFloat(NonZero(VGet(m, "pid", j)))

\* template energy_loss(T&) with T = ParticleSpan
energy_loss_span(m) ==
  StoreView(m, SpanView("e"),
    [j \in Coeffs |->
      Sub(VGet(m, "e", j),
          Mul(charge_span(m, j), loss_term(beta_2(CoeffAt(m, j)))))])

\* energy_loss(Particle&)
energy_loss_Particle(m, r) ==
  LET b == beta_2(ParticleAt(m, r))
      c == charge(m, r)
  IN  IF c
        THEN Put(m, r, "e", Sub(Get(m, r, "e"), Mul(CastFloat(c), loss_term(b))))
        ELSE m

\* do_energy_loss(T&) of span_demo.cpp with T = ParticleSpan
do_energy_loss_span(m) ==
  StoreView(m, SpanView("e"),
    [j \in Coeffs |-> Sub(VGet(m, "e", j), loss_term(beta_2(CoeffAt(m, j))))])

\* do_energy_loss(T&) of span_demo.cpp with T = Particle
do_energy_loss_Particle(m, r) ==
  Put(m, r, "e", Sub(Get(m, r, "e"), loss_term(beta_2(ParticleAt(m, r)))))

\* const auto dt = 0.1
Dt == F(Round(Scale, 10))

\* mutant: y advanced by px (a copied line left unedited)
move_particle_Particle_copied(m, r) ==
  LET m1 == Put(m, r, "x", Add(Get(m, r, "x"), Mul(Get(m, r, "px"), Dt)))
      m2 == Put(m1, r, "y", Add(Get(m1, r, "y"), Mul(Get(m1, r, "px"), Dt)))
      m3 == Put(m2, r, "z", Add(Get(m2, r, "z"), Mul(Get(m2, r, "pz"), Dt)))
  IN  Put(m3, r, "t", Add(Get(m3, r, "t"), Dt))

\* mutant: the time step added to the energy of the following record
\* (a reference one record and one member off)
move_particle_Particle_spill(m, r) ==
  LET m1 == Put(m, r, "x", Add(Get(m, r, "x"), Mul(Get(m, r, "px"), Dt)))
      m2 == Put(m1, r, "y", Add(Get(m1, r, "y"), Mul(Get(m1, r, "py"), Dt)))
      m3 == Put(m2, r, "z", Add(Get(m2, r, "z"), Mul(Get(m2, r, "pz"), Dt)))
  IN  Put(m3, r + 1, "e", Add(Get(m3, r + 1, "e"), Dt))

\* move_particle(T&) with T = Particle
move_particle_Particle(m, r) ==
  LET m1 == Put(m, r, "x", Add(Get(m, r, "x"), Mul(Get(m, r, "px"), Dt)))
      m2 == Put(m1, r, "y", Add(Get(m1, r, "y"), Mul(Get(m1, r, "py"), Dt)))
      m3 == Put(m2, r, "z", Add(Get(m2, r, "z"), Mul(Get(m2, r, "pz"), Dt)))
  IN  Put(m3, r, "t", Add(Get(m3, r, "t"), Dt))

\* mutant: the time step added to the energy view instead of the time view
move_particle_span_energy(m) ==
  LET m1 == StoreView(m, SpanView("x"),
              [j \in Coeffs |-> Add(VGet(m, "x", j), Mul(VGet(m, "px", j), Dt))])
      m2 == StoreView(m1, SpanView("y"),
              [j \in Coeffs |-> Add(VGet(m1, "y", j), Mul(VGet(m1, "py", j), Dt))])
      m3 == StoreView(m2, SpanView("z"),
              [j \in Coeffs |-> Add(VGet(m2, "z", j), Mul(VGet(m2, "pz", j), Dt))])
  IN  StoreView(m3, SpanView("e"), [j \in Coeffs |-> Add(VGet(m3, "e", j), Dt)])

\* move_particle(T&) with T = ParticleSpan
move_particle_span(m) ==
  LET m1 == StoreView(m, SpanView("x"),
              [j \in Coeffs |-> Add(VGet(m, "x", j), Mul(VGet(m, "px", j), Dt))])
      m2 == StoreView(m1, SpanView("y"),
              [j \in Coeffs |-> Add(VGet(m1, "y", j), Mul(VGet(m1, "py", j), Dt))])
      m3 == StoreView(m2, SpanView("z"),
              [j \in Coeffs |-> Add(VGet(m2, "z", j), Mul(VGet(m2, "pz", j), Dt))])
  IN  StoreView(m3, SpanView("t"), [j \in Coeffs |-> Add(VGet(m3, "t", j), Dt)])

\* the loop `for (auto&& p : span)` has reached end() (the storage so far is
\* evaluated here, before the next turn)
AtEnd(m, r) == r >= end_ \/ r >= NRec(m)

\* ContinuousEnergyLossNoEigen::operator(): for (auto&& p : span) energy_loss(p)
RECURSIVE EnergyLossLoop(_, _)
EnergyLossLoop(m, r) ==
  IF AtEnd(m, r) THEN m ELSE EnergyLossLoop(energy_loss_Particle(m, r), r + 1)

ContinuousEnergyLossNoEigen(m) == EnergyLossLoop(m, begin_)

\* MoveParticleNoEigen::operator(): for (auto&& p : span) move_particle(p)
RECURSIVE MoveLoop(_, _)
MoveLoop(m, r) ==
  IF AtEnd(m, r) THEN m ELSE MoveLoop(move_particle_Particle(m, r), r + 1)

MoveParticleNoEigen(m) == MoveLoop(m, begin_)

\* visit([&span](auto& proc) { proc(span); }, process)
visit(proc, m) ==
  CASE proc = "ContinuousEnergyLoss" ->
         IF layout = "ext" THEN energy_loss_span(m) ELSE do_energy_loss_span(m)
    [] proc = "ContinuousEnergyLossNoEigen" -> ContinuousEnergyLossNoEigen(m)
    [] proc = "MoveParticle" -> move_particle_span(m)
    [] proc = "MoveParticleNoEigen" -> MoveParticleNoEigen(m)
    [] OTHER -> m

IsEnergyLoss(proc) ==
  proc \in {"ContinuousEnergyLoss", "ContinuousEnergyLossNoEigen"}
IsMove(proc) == proc \in {"MoveParticle", "MoveParticleNoEigen"}

\* for (const auto& process : process_list) visit(..., process)
RECURSIVE ApplyList(_, _)
ApplyList(list, m) ==
  IF list = <<>> \/ Len(m) = 0 THEN m
  ELSE ApplyList(Tail(list), visit(Head(list), m))

\* one iteration of process_one / process_span_no_eigen:
\*   for (auto&& p : span) { energy_loss(p); move_particle(p); }
RECURSIVE PerRecordLoop(_, _)
PerRecordLoop(m, r) ==
  IF AtEnd(m, r) THEN m
  ELSE PerRecordLoop(move_particle_Particle(energy_loss_Particle(m, r), r), r + 1)

PerRecordPass(m) == PerRecordLoop(m, begin_)

\* one iteration of process_one in span_demo.cpp:
\*   for (auto&& p : span) do_energy_loss(p);
RECURSIVE DoEnergyLossLoop(_, _)
DoEnergyLossLoop(m, r) ==
  IF AtEnd(m, r) THEN m ELSE DoEnergyLossLoop(do_energy_loss_Particle(m, r), r + 1)

SdPerRecordPass(m) == DoEnergyLossLoop(m, begin_)

\* ---------------------------------------------------------- initial storage
\* field values (in units of 1.0) the harness populates records with:
\* << px, py, pz, e, x, y, z, t >>.  The first is the value-initialised
\* record of std::vector<Particle> stack(n); the others give beta_2 in
\* (0, 1), beta_2 = 1, beta_2 = 0, beta_2 > 1 and beta_2 = +infinity.
SampleParticles ==
  << << 0, 0, 0, 0, 0, 0, 0, 0 >>,
     << 1, 0, 0, 2, 0, 1, 0, 0 >>,
     << 1, 0, 0, 1, 1, 0, -1, 0 >>,
     << 0, 0, 0, 1, 2, 0, 0, 1 >>,
     << 1, 1, 1, 1, 0, 0, 3, 0 >>,
     << 2, 0, -1, 0, -1, 2, 0, 2 >> >>

SampleField(s, f) ==
  LET n == CHOOSE n \in 1 .. 8 : FieldsOf("ext")[n + 1] = f
  IN  F(SampleParticles[s][n] * Scale)

\* a stack of n records; record r holds sample (a + r * b) mod the number of
\* samples, and a value-initialised pid
InitialStack(L, n, a, b) ==
  [ad \in 1 .. (n * StrideOf(L)) |->
    LET r == (ad - 1) \div StrideOf(L)
        f == FieldsOf(L)[((ad - 1) % StrideOf(L)) + 1]
    IN  IF f = "pid" THEN I(0)
        ELSE SampleField(((a + r * b) % Len(SampleParticles)) + 1, f)]

Records == 0 .. (StackSize - 1)

Init ==
  \E L \in {"ext", "phys"}, n \in 1 .. StackSize,
     a \in 0 .. (Len(SampleParticles) - 1), b \in 0 .. (Len(SampleParticles) - 1) :
    /\ L = "ext" => n = StackSize
    /\ layout = L
    /\ mem = InitialStack(L, n, a, b)
    /\ mem0 = mem
    /\ memP = mem
    /\ i = 0
    /\ pc = IF L = "ext" THEN "setup" ELSE "stack"
    /\ range0 = 0
    /\ begin_ = 0
    /\ end_ = 0
    /\ method = "none"
    /\ process_list = <<>>
    /\ p = 0
    /\ li = 1
    /\ pass = 0
    /\ nEL = [r \in Records |-> 0]
    /\ nMove = [r \in Records |-> 0]
    /\ calls = <<>>
    /\ lastw = [f |-> "none", j |-> 0, v |-> Zero]

\* ------------------------------------------------------------------ actions
\* mutant: the counter incremented after its use (i++ % 3 - 1)
PidOf_postincrement(n) == (n % 3) - 1

\* ++i % 3 - 1 for the record at position n (i = n before the increment)
PidOf(n) == ((n + 1) % 3) - 1

\* setup_stack: one turn of `for (auto&& part : stack) part.pid() = (++i % 3 - 1)`,
\* returning the stack after the last record
setup_stack ==
  /\ pc = "setup"
  /\ i < NRec(mem)
  /\ i' = i + 1
  /\ mem' = Put(mem, i, "pid", I(PidOf(i)))
  /\ pc' = IF i + 1 = NRec(mem) THEN "stack" ELSE "setup"
  /\ mem0' = mem'
  /\ memP' = mem'
  /\ UNCHANGED << layout, range0, begin_, end_, method, process_list, p, li,
                  pass, nEL, nMove, calls, lastw >>

\* ParticleSpan span(stack.data(), stack.data() + state.range(0));
\* in span_demo.cpp ParticleSpan span(stack) over a stack of state.range(0) records
ParticleSpan ==
  /\ pc = "stack"
  /\ \E n \in 1 .. NRec(mem) :
       /\ layout = "phys" => n = NRec(mem)
       /\ range0' = n
       /\ begin_' = 0
       /\ end_' = n
  /\ pc' = "span"
  /\ mem0' = mem
  /\ memP' = mem
  /\ UNCHANGED << layout, mem, i, method, process_list, p, li, pass, nEL,
                  nMove, calls, lastw >>

ExtMethods ==
  { "process_one", "process_span", "process_span_no_eigen",
    "variant_process_one", "variant_process_span",
    "variant_process_span_no_eigen" }

PhysMethods ==
  { "sd_process_one", "sd_process_span", "sd_variant_process_one",
    "sd_variant_process_span" }

\* the process_list.emplace_back(...) calls of each benchmark
ProcessListOf(meth) ==
  CASE meth \in {"variant_process_one", "variant_process_span"} ->
         << "ContinuousEnergyLoss", "MoveParticle" >>
    [] meth = "variant_process_span_no_eigen" ->
         << "ContinuousEnergyLossNoEigen", "MoveParticleNoEigen" >>
    [] meth \in {"sd_variant_process_one", "sd_variant_process_span"} ->
         << "ContinuousEnergyLoss" >>
    [] OTHER -> <<>>

\* entry of a benchmark function, up to its `for (auto _ : state)`
Start ==
  /\ pc = "span"
  /\ \E meth \in (IF layout = "ext" THEN ExtMethods ELSE PhysMethods) :
       /\ method' = meth
       /\ process_list' = ProcessListOf(meth)
  /\ pc' = "iter"
  /\ pass' = 0
  /\ UNCHANGED << layout, mem, i, range0, begin_, end_, p, li, mem0, memP,
                  nEL, nMove, calls, lastw >>

\* one more iteration of `for (auto _ : state)`
BeginPass ==
  /\ pc = "iter"
  /\ pass < MaxPasses
  /\ pc' = "body"
  /\ p' = begin_
  /\ li' = 1
  /\ calls' = <<>>
  /\ memP' = mem
  /\ UNCHANGED << layout, mem, i, range0, begin_, end_, method, process_list,
                  pass, mem0, nEL, nMove, lastw >>

InSpan(r) == begin_ <= r /\ r < end_

\* history counters: an operation applied to the records of set S
Counted(isEL, isMove, S) ==
  /\ nEL' = [r \in Records |-> IF isEL /\ r \in S THEN nEL[r] + 1 ELSE nEL[r]]
  /\ nMove' = [r \in Records |-> IF isMove /\ r \in S THEN nMove[r] + 1 ELSE nMove[r]]

SpanRecords == { r \in Records : InSpan(r) }

\* the end of one iteration of the benchmark loop
EndPass ==
  /\ pc' = "iter"
  /\ pass' = pass + 1

\* loop body of process_one and process_span_no_eigen:
\*   for (auto&& p : span) { energy_loss(p); move_particle(p); }
PerRecordBody ==
  /\ pc = "body"
  /\ \/ /\ li = 1
        /\ mem' = energy_loss_Particle(mem, p)
        /\ Counted(TRUE, FALSE, {p})
        /\ li' = 2
        /\ UNCHANGED << p, pc, pass >>
     \/ /\ li = 2
        /\ mem' = move_particle_Particle(mem, p)
        /\ Counted(FALSE, TRUE, {p})
        /\ li' = 1
        /\ p' = p + 1
        /\ IF p + 1 = end_ THEN EndPass ELSE UNCHANGED << pc, pass >>
  /\ UNCHANGED << layout, i, range0, begin_, end_, method, process_list,
                  mem0, memP, calls, lastw >>

process_one == method = "process_one" /\ PerRecordBody

process_span_no_eigen == method = "process_span_no_eigen" /\ PerRecordBody

\* loop body of process_span: energy_loss(span); move_particle(span);
process_span ==
  /\ method = "process_span"
  /\ pc = "body"
  /\ \/ /\ li = 1
        /\ mem' = energy_loss_span(mem)
        /\ Counted(TRUE, FALSE, SpanRecords)
        /\ li' = 2
        /\ UNCHANGED << pc, pass >>
     \/ /\ li = 2
        /\ mem' = move_particle_span(mem)
        /\ Counted(FALSE, TRUE, SpanRecords)
        /\ li' = 1
        /\ EndPass
  /\ UNCHANGED << layout, i, range0, begin_, end_, method, process_list, p,
                  mem0, memP, calls, lastw >>

\* mutant: the list walked from its end
VisitStep_reversed ==
  LET proc == process_list[Len(process_list) + 1 - li]
  IN  /\ li <= Len(process_list)
      /\ mem' = visit(proc, mem)
      /\ Counted(IsEnergyLoss(proc), IsMove(proc), SpanRecords)
      /\ calls' = Append(calls, proc)

\* one visit of the process at position li, applied to the span
VisitStep ==
  /\ li <= Len(process_list)
  /\ mem' = visit(process_list[li], mem)
  /\ Counted(IsEnergyLoss(process_list[li]), IsMove(process_list[li]), SpanRecords)
  /\ calls' = Append(calls, process_list[li])

\* loop body of variant_process_one (both files):
\*   for (auto&& p : span) for (process : process_list) visit(proc(span))
VariantPerRecordBody ==
  /\ pc = "body"
  /\ VisitStep
  /\ IF li < Len(process_list)
       THEN li' = li + 1 /\ UNCHANGED << p, pc, pass >>
       ELSE /\ li' = 1
            /\ p' = p + 1
            /\ IF p + 1 = end_ THEN EndPass ELSE UNCHANGED << pc, pass >>
  /\ UNCHANGED << layout, i, range0, begin_, end_, method, process_list,
                  mem0, memP, lastw >>

variant_process_one == method = "variant_process_one" /\ VariantPerRecordBody

\* loop body of variant_process_span and variant_process_span_no_eigen:
\*   for (process : process_list) visit(proc(span))
VariantSpanBody ==
  /\ pc = "body"
  /\ VisitStep
  /\ IF li < Len(process_list)
       THEN li' = li + 1 /\ UNCHANGED << pc, pass >>
       ELSE li' = 1 /\ EndPass
  /\ UNCHANGED << layout, i, range0, begin_, end_, method, process_list, p,
                  mem0, memP, lastw >>

variant_process_span == method = "variant_process_span" /\ VariantSpanBody

variant_process_span_no_eigen ==
  method = "variant_process_span_no_eigen" /\ VariantSpanBody

\* span_demo.cpp, process_one: for (auto&& p : span) do_energy_loss(p);
sd_process_one ==
  /\ method = "sd_process_one"
  /\ pc = "body"
  /\ mem' = do_energy_loss_Particle(mem, p)
  /\ Counted(TRUE, FALSE, {p})
  /\ p' = p + 1
  /\ IF p + 1 = end_ THEN EndPass ELSE UNCHANGED << pc, pass >>
  /\ UNCHANGED << layout, i, range0, begin_, end_, method, process_list, li,
                  mem0, memP, calls, lastw >>

\* span_demo.cpp, process_span: do_energy_loss(span);
sd_process_span ==
  /\ method = "sd_process_span"
  /\ pc = "body"
  /\ mem' = do_energy_loss_span(mem)
  /\ Counted(TRUE, FALSE, SpanRecords)
  /\ EndPass
  /\ UNCHANGED << layout, i, range0, begin_, end_, method, process_list, p,
                  li, mem0, memP, calls, lastw >>

\* span_demo.cpp, variant_process_one
sd_variant_process_one ==
  method = "sd_variant_process_one" /\ VariantPerRecordBody

\* span_demo.cpp, variant_process_span
sd_variant_process_span ==
  method = "sd_variant_process_span" /\ VariantSpanBody

\* values written through a view, in units of 1.0
WriteValues == {5, -7}

\* span.f()(j) = v: a write through the strided view of field f
ViewWrite ==
  /\ pc = "span"
  /\ \E f \in FieldSet, j \in Coeffs, w \in WriteValues :
       LET val == IF f = "pid" THEN I(w) ELSE F(w * Scale)
       IN  /\ mem' = Store(mem, ViewAddr(SpanView(f), j), val)
           /\ lastw' = [f |-> f, j |-> j, v |-> val]
  /\ pc' = "wrote"
  /\ UNCHANGED << layout, i, range0, begin_, end_, method, process_list, p,
                  li, pass, mem0, memP, nEL, nMove, calls >>

Next ==
  \/ setup_stack
  \/ ParticleSpan
  \/ Start
  \/ BeginPass
  \/ process_one
  \/ process_span
  \/ process_span_no_eigen
  \/ variant_process_one
  \/ variant_process_span
  \/ variant_process_span_no_eigen
  \/ sd_process_one
  \/ sd_process_span
  \/ sd_variant_process_one
  \/ sd_variant_process_span
  \/ ViewWrite

Spec == Init /\ [][Next]_vars

\* ------------------------------------------------------------------ claims
PassEnd == pc = "iter" /\ pass >= 1
Running == pc \in {"iter", "body"}
StackRecords == { r \in Records : r < NRec(mem) }

\* C1: the single-record form applied to each record of the span in index
\* order leaves the storage the batch form leaves, for EnergyLoss (state of
\* process_span after energy_loss(span)) and for Move (after move_particle(span)).
C1_SingleEqualsBatch ==
  method = "process_span" =>
    /\ (pc = "body" /\ li = 2) => mem = ContinuousEnergyLossNoEigen(memP)
    /\ PassEnd => mem = MoveParticleNoEigen(energy_loss_span(memP))

\* the energy EnergyLoss leaves in record r of storage m, as the claim states it
ExpectedEnergy(m, r) ==
  IF Get(m, r, "pid").v = 0
    THEN Get(m, r, "e")
    ELSE Sub(Get(m, r, "e"), loss_term(beta_2(ParticleAt(m, r))))

\* C2: after one application of EnergyLoss (either form) a record with the
\* neutral tag 0 keeps its energy, any other record has e - delta, delta
\* computed from its own px, py, pz, e before the application.
C2_EnergyLossPost ==
  (layout = "ext" /\ Running) =>
    \A r \in SpanRecords : nEL[r] = 1 => Get(mem, r, "e") = ExpectedEnergy(mem0, r)

\* N applications of Move to record r: t, x, y, z advanced N times, the rest kept
C3_NFold ==
  (layout = "ext" /\ Running) =>
    \A r \in StackRecords :
      LET N == F(nMove[r] * Scale)
          Adv(q, mom) == Add(Get(mem0, r, q), Mul(Mul(N, Get(mem0, r, mom)), Dt))
      IN  /\ Get(mem, r, "t") = Add(Get(mem0, r, "t"), Mul(N, Dt))
          /\ Get(mem, r, "x") = Adv("x", "px")
          /\ Get(mem, r, "y") = Adv("y", "py")
          /\ Get(mem, r, "z") = Adv("z", "pz")
          /\ \A f \in {"pid", "px", "py", "pz"} : Get(mem, r, f) = Get(mem0, r, f)

\* one application of Move: x' = x + px * dt (y, z alike), t' = t + dt,
\* momentum, energy and tag kept
C3_OneStep ==
  (layout = "ext" /\ nMove' # nMove) =>
    \A r \in StackRecords :
      nMove'[r] # nMove[r] =>
        /\ nMove'[r] = nMove[r] + 1
        /\ Get(mem', r, "x") = Add(Get(mem, r, "x"), Mul(Get(mem, r, "px"), Dt))
        /\ Get(mem', r, "y") = Add(Get(mem, r, "y"), Mul(Get(mem, r, "py"), Dt))
        /\ Get(mem', r, "z") = Add(Get(mem, r, "z"), Mul(Get(mem, r, "pz"), Dt))
        /\ Get(mem', r, "t") = Add(Get(mem, r, "t"), Dt)
        /\ \A f \in {"pid", "px", "py", "pz", "e"} : Get(mem', r, f) = Get(mem, r, f)

\* C3: after N >= 1 applications of Move with dt = 0.1, t = t0 + N * dt,
\* x = x0 + N * px * dt (y, z alike), and px, py, pz, e, pid keep their values;
\* N = 1 is the one-application postcondition.
C3_Move == [](C3_NFold) /\ [][C3_OneStep]_vars

C3_Witness ==
  /\ layout = "ext"
  /\ PassEnd
  /\ \E r \in SpanRecords :
       /\ nMove[r] >= 2
       /\ Get(mem0, r, "px") # Zero
       /\ Get(mem0, r, "py") # Get(mem0, r, "px")

\* C4: a value written at element j of the strided view of field f (base: the
\* first record's f, length size(), stride 9 resp. 4) is what field f of the
\* j-th record of begin()..end() reads.
C4_ViewRoundTrip ==
  pc = "wrote" =>
    /\ Get(mem, begin_ + lastw.j, lastw.f) = lastw.v
    /\ SpanView(lastw.f).base = FieldAddr(begin_, lastw.f)
    /\ SpanView(lastw.f).size = end_ - begin_
    /\ SpanView(lastw.f).stride = (IF layout = "ext" THEN 9 ELSE 4)

C4_Witness ==
  /\ pc = "wrote"
  /\ layout = "ext"
  /\ lastw.j >= 2
  /\ lastw.f = "e"
  /\ Get(mem0, begin_ + lastw.j, lastw.f) # lastw.v

\* the calls op_1(span); op_2(span) made directly
DirectCalls(meth, m) ==
  IF meth = "variant_process_span"
    THEN move_particle_span(energy_loss_span(m))
    ELSE MoveParticleNoEigen(ContinuousEnergyLossNoEigen(m))

\* C5: an iteration of variant_process_span / variant_process_span_no_eigen
\* dispatches the processes of the list in list order, each once, leaves the
\* storage the direct calls in that order leave, and leaves the list as built.
C5_ListOrder ==
  (method \in {"variant_process_span", "variant_process_span_no_eigen"} /\ Running) =>
    /\ process_list = ProcessListOf(method)
    /\ Len(calls) <= Len(process_list)
    /\ calls = SubSeq(process_list, 1, Len(calls))
    /\ pc = "body" => Len(calls) = li - 1
    /\ PassEnd => /\ calls = process_list
                  /\ mem = DirectCalls(method, memP)

C5_Witness ==
  /\ method = "variant_process_span"
  /\ PassEnd
  /\ Len(calls) = 2
  /\ \E r \in SpanRecords :
       /\ Get(mem, r, "e") # Get(memP, r, "e")
       /\ Get(mem, r, "x") # Get(memP, r, "x")

\* the stacks setup_stack can return: every initial stack with its tags set
TaggedStack(a, b) ==
  LET m == InitialStack("ext", StackSize, a, b)
  IN  [ad \in DOMAIN m |->
        IF (ad - 1) % StrideOf("ext") = 0
          THEN I(PidOf((ad - 1) \div StrideOf("ext")))
          ELSE m[ad]]

ListsDiffer(m) ==
  \/ ApplyList(<< "MoveParticle", "ContinuousEnergyLoss" >>, m)
       # ApplyList(<< "ContinuousEnergyLoss", "MoveParticle" >>, m)
  \/ ApplyList(<< "MoveParticleNoEigen", "ContinuousEnergyLossNoEigen" >>, m)
       # ApplyList(<< "ContinuousEnergyLossNoEigen", "MoveParticleNoEigen" >>, m)

\* C6 as stated: for some initial record state the list [Move, EnergyLoss]
\* leaves other field values than the list [EnergyLoss, Move].
C6_NonCommuting ==
  (layout = "ext" /\ pc = "span") =>
    \E a \in 0 .. (Len(SampleParticles) - 1), b \in 0 .. (Len(SampleParticles) - 1) :
      ListsDiffer(TaggedStack(a, b))

\* C6 amended: Move and EnergyLoss commute: from every storage (as populated,
\* and as left by every iteration of a benchmark) the list [Move, EnergyLoss]
\* leaves the field values the list [EnergyLoss, Move] leaves.
C6_Commute ==
  (layout = "ext" /\ pc \in {"span", "iter"}) => ~ListsDiffer(mem)

C6_Witness ==
  /\ layout = "ext"
  /\ pc = "span"
  /\ \E r \in SpanRecords :
       LET m == ApplyList(<< "MoveParticle", "ContinuousEnergyLoss" >>, mem)
       IN  /\ IsFin(Get(m, r, "e"))
           /\ Get(m, r, "e") # Get(mem, r, "e")
           /\ Get(m, r, "x") # Get(mem, r, "x")

\* C7: after setup_stack the record at position k is neutral (pid 0) exactly
\* when k mod 3 = 0; of the first 9 records exactly 0, 3 and 6 are neutral.
C7_SetupTags ==
  (layout = "ext" /\ pc = "stack") =>
    /\ \A k \in StackRecords : (Get(mem, k, "pid") = I(0)) <=> (k % 3 = 0)
    /\ \A k \in StackRecords : Get(mem, k, "pid").k = "int"
    /\ NRec(mem) >= 9 =>
         { k \in 0 .. 8 : Get(mem, k, "pid") = I(0) } = {0, 3, 6}
    /\ Cardinality({ k \in StackRecords : Get(mem, k, "pid") = I(0) })
         = (NRec(mem) + 2) \div 3

C7_Witness ==
  /\ layout = "ext"
  /\ pc = "stack"
  /\ NRec(mem) >= 9
  /\ Get(mem, 1, "pid") = I(1)
  /\ Get(mem, 2, "pid") = I(-1)

\* C8: one iteration of variant_process_one applies each operation of the list
\* exactly once to each record and leaves the storage one iteration of
\* process_one leaves.
C8_VariantOneIsProcessOne ==
  PassEnd =>
    /\ method = "variant_process_one" =>
         /\ \A r \in SpanRecords : nEL[r] = pass /\ nMove[r] = pass
         /\ mem = PerRecordPass(memP)
    /\ method = "sd_variant_process_one" =>
         /\ \A r \in SpanRecords : nEL[r] = pass
         /\ mem = SdPerRecordPass(memP)

\* C9: operations made through a span over records [0, count) leave every
\* record at index >= count, and the span's begin, end and size(), unchanged;
\* coefficient j of the view of field f is field f of record j of the span.
C9_Frame ==
  pc \in {"span", "wrote", "iter", "body"} =>
    /\ begin_ = 0
    /\ end_ = range0
    /\ size = range0
    /\ DOMAIN mem = DOMAIN mem0
    /\ \A ad \in DOMAIN mem : (ad - 1) \div Stride >= range0 => mem[ad] = mem0[ad]
    /\ \A f \in FieldSet : \A j \in 0 .. (SpanView(f).size - 1) :
         /\ ViewAddr(SpanView(f), j) = FieldAddr(j, f)
         /\ j < range0

C9_Witness ==
  /\ method = "variant_process_one"
  /\ PassEnd
  /\ range0 >= 2
  /\ range0 < NRec(mem)
  /\ \A r \in SpanRecords : \E f \in FieldSet : Get(mem, r, f) # Get(mem0, r, f)

\* C10: the record-major iteration (per record: energy_loss, move_particle)
\* and the operation-major iteration (EnergyLoss over the span, then Move
\* over the span) leave the same storage.
C10_LoopNesting ==
  PassEnd =>
    /\ method \in {"process_one", "process_span_no_eigen"} =>
         mem = MoveParticleNoEigen(ContinuousEnergyLossNoEigen(memP))
    /\ method = "variant_process_span_no_eigen" => mem = PerRecordPass(memP)

C10_Witness ==
  /\ method = "variant_process_span_no_eigen"
  /\ PassEnd
  /\ size >= 3
  /\ \A r \in SpanRecords : Get(mem, r, "t") # Get(memP, r, "t")
  /\ \E r \in SpanRecords : Get(mem, r, "e") # Get(memP, r, "e")
=============================================================================
